---- MODULE Spec2Model ----
(***************************************************************************)
(* Model of src/src/functions/main.py: the HTTP-triggered function         *)
(* obtener_y_guardar_datos and the module-level handles it uses.           *)
(*                                                                         *)
(* Reading of the source.  Lines 220-223 of main.py repeat lines 217-220   *)
(* verbatim inside the analysis-only branch and do not parse; the model    *)
(* reads the file without that repeated fragment, which is the only        *)
(* reading under which the handler has any behaviour.                      *)
(*                                                                         *)
(* The handler never binds the name `data` (obtener_datos_accion is        *)
(* defined at lines 49-72 and called nowhere), so evaluating line 167      *)
(* raises NameError, which the handler's except clause (lines 235-238)     *)
(* turns into a 500.  Lines 168-234 are therefore never executed; the      *)
(* documents they would build are modelled as operators below and used to  *)
(* state what the claims expect.                                           *)
(***************************************************************************)
EXTENDS Integers, Sequences, FiniteSets, TLC

VARIABLES
    db,                  \* module global, lines 31-35: "client" or "None"
    openai_client,       \* module global, line 42: "client" or "None"
    mistral_client,      \* module global, line 43: "client" or "None"
    GENKIT_FLOW_URL,     \* module global, line 47: "url" or "" (empty)
    store,               \* collection 'historical_data': key -> document
    pc,                  \* per execution: position in the handler
    args,                \* per execution: request.args (lines 143-146)
    openai_analysis,     \* local, line 151 / 157
    mistral_analysis,    \* local, line 152 / 158
    gemini_analysis,     \* local, line 153 / 164
    invoked,             \* per execution: client functions called so far
    sent,                \* per execution: outbound calls made so far, as
                         \* [call], and [call, key, doc] for a store write
    raised,              \* per execution: exception caught at line 235
    response,            \* per execution: responses returned to the caller
    served               \* number of requests accepted so far

vars == <<db, openai_client, mistral_client, GENKIT_FLOW_URL, store, pc, args,
          openai_analysis, mistral_analysis, gemini_analysis, invoked, sent,
          raised, response, served>>

config == <<db, openai_client, mistral_client, GENKIT_FLOW_URL>>
locals == <<openai_analysis, mistral_analysis, gemini_analysis>>

(***************************************************************************)
(* Bounds of the model.                                                    *)
(***************************************************************************)
\* Requests accepted over the life of the process.
MaxRequests == 3

\* Concurrent executions of the handler the platform runs.
Executions == {"e1", "e2"}

Symbols == {"AAPL", "ZZZZINVALID"}
Periods == {"1mo"}
Intervals == {"1d"}
FinancialTexts == {<<>>, <<"Markets", "rallied", "today">>}

(***************************************************************************)
(* Python values.  A str is a sequence of words; a dict is a function from *)
(* its keys.                                                               *)
(***************************************************************************)
PyNone == [t |-> "None"]
PyStr(s) == [t |-> "str", s |-> s]
PyDict(d) == [t |-> "dict", d |-> d]
PyList(l) == [t |-> "list", l |-> l]

\* bool(v)
Truthy(v) ==
    CASE v.t = "None" -> FALSE
      [] v.t = "str"  -> Len(v.s) > 0
      [] v.t = "dict" -> DOMAIN v.d # {}
      [] v.t = "list" -> Len(v.l) > 0

\* k in v  (key of a dict, part of a str, member of a list)
Contains(v, k) ==
    CASE v.t = "dict" -> k \in DOMAIN v.d
      [] v.t = "str"  -> \E n \in 1..Len(v.s) : v.s[n] = k
      [] v.t = "list" -> \E n \in 1..Len(v.l) : v.l[n] = PyStr(<<k>>)

ErrorDict(msg) == PyDict([error |-> PyStr(<<msg>>)])

(***************************************************************************)
(* What the external services may answer (the environment).                *)
(***************************************************************************)
\* yfinance: the series the provider holds for a symbol (timestamp -> row).
\* A timestamp is [utc, tz]; a row maps a field to a number or "NaN".
ProviderSeries(simbolo) ==
    IF simbolo = "AAPL"
    THEN [ts \in {[utc |-> 1, tz |-> "America/New_York"],
                  [utc |-> 2, tz |-> "America/New_York"]} |->
             [Close |-> IF ts.utc = 1 THEN 101 ELSE "NaN", Volume |-> 7]]
    ELSE << >>

\* chat completion of OpenAI / Mistral: a text, or an exception
ChatReplies == {[ok |-> TRUE, content |-> PyStr(<<"bullish">>)],
                [ok |-> FALSE, e |-> "APIConnectionError"]}

\* Genkit flow: a RequestException, or the JSON body of a 2xx answer
GenkitReplies ==
    {[ok |-> FALSE, e |-> "ConnectionError"],
     [ok |-> TRUE, json |-> PyDict([output |-> PyStr(<<"neutral">>)])],
     [ok |-> TRUE, json |-> PyDict([analysis |-> PyStr(<<"neutral">>)])],
     [ok |-> TRUE, json |-> PyList(<<PyStr(<<"neutral">>)>>)]}

(***************************************************************************)
(* obtener_datos_accion, lines 49-72: None for an empty series or an       *)
(* exception of the provider, else the series.  Nothing calls it.          *)
(***************************************************************************)
obtener_datos_accion(simbolo, provider_up) ==
    IF provider_up /\ DOMAIN ProviderSeries(simbolo) # {}
    THEN [t |-> "DataFrame", rows |-> ProviderSeries(simbolo)]
    ELSE PyNone

(***************************************************************************)
(* The analysis clients, lines 74-130, as functions of the service's       *)
(* answer.                                                                 *)
(***************************************************************************)
get_openai_analysis(reply) ==
    IF openai_client = "None"
    THEN ErrorDict("OpenAI API key not set.")
    ELSE IF reply.ok THEN reply.content ELSE ErrorDict(reply.e)

get_mistral_analysis(reply) ==
    IF mistral_client = "None"
    THEN ErrorDict("Mistral API key not set.")
    ELSE IF reply.ok THEN reply.content ELSE ErrorDict(reply.e)

get_gemini_analysis_from_genkit(reply) ==
    IF GENKIT_FLOW_URL = ""
    THEN ErrorDict("GENKIT_FLOW_URL not set.")
    ELSE IF reply.ok THEN reply.json ELSE ErrorDict(reply.e)

(***************************************************************************)
(* The conditions the handler tests on an analysis result.                 *)
(***************************************************************************)
\* lines 195, 198, 211, 212, 224, 226
ChatAnalysisUsable(a) == Truthy(a) /\ a.t # "dict" /\ ~Contains(a, "error")

\* lines 161, 201, 213, 228
GeminiUsable(a) == Truthy(a) /\ ~Contains(a, "error")

\* line 164: gemini_analysis_response.get("output", gemini_analysis_response)
GetOutput(r) == IF "output" \in DOMAIN r.d THEN r.d.output ELSE r

(***************************************************************************)
(* Lines 170-182: the series keyed by the ISO string of the timestamp      *)
(* with its timezone dropped, NaN replaced by None.                        *)
(***************************************************************************)
IsoFormat(ts) == <<"T", ts.utc>>

ProcessedDataDict(rows) ==
    [k \in {IsoFormat(ts) : ts \in DOMAIN rows} |->
        LET ts == CHOOSE x \in DOMAIN rows : IsoFormat(x) = k
        IN  [f \in DOMAIN rows[ts] |->
                IF rows[ts][f] = "NaN" THEN "None" ELSE rows[ts][f]]]

(***************************************************************************)
(* The documents of lines 187-202 and 215-229.                             *)
(***************************************************************************)
AnalysisFields(oa, ma, ga) ==
    (IF ChatAnalysisUsable(oa) THEN [openai_analysis |-> oa] ELSE << >>) @@
    (IF ChatAnalysisUsable(ma) THEN [mistral_analysis |-> ma] ELSE << >>) @@
    (IF GeminiUsable(ga) THEN [gemini_analysis |-> ga] ELSE << >>)

HistoricalDocument(a, rows, oa, ma, ga) ==
    [updated_at |-> "SERVER_TIMESTAMP", symbol |-> a.symbol,
     period |-> a.period, interval |-> a.interval,
     data |-> ProcessedDataDict(rows)] @@ AnalysisFields(oa, ma, ga)

AnalysisDocument(a, oa, ma, ga) ==
    [updated_at |-> "SERVER_TIMESTAMP", symbol |-> a.symbol,
     analysis_only |-> TRUE] @@ AnalysisFields(oa, ma, ga)

\* lines 211-213
AnyAnalysisUsable(oa, ma, ga) ==
    ChatAnalysisUsable(oa) \/ ChatAnalysisUsable(ma) \/ GeminiUsable(ga)

NoDoc == [t |-> "absent"]
NoRequest == [symbol |-> "", period |-> "", interval |-> "",
              financial_text |-> << >>]

(***************************************************************************)
(* Module initialisation, lines 17-47.                                     *)
(***************************************************************************)
Init ==
    /\ db \in {"client", "None"}
    /\ openai_client \in {"client", "None"}
    /\ mistral_client \in {"client", "None"}
    /\ GENKIT_FLOW_URL \in {"url", ""}
    /\ store = [k \in {} |-> NoDoc]
    /\ pc = [i \in Executions |-> "idle"]
    /\ args = [i \in Executions |-> NoRequest]
    /\ openai_analysis = [i \in Executions |-> PyNone]
    /\ mistral_analysis = [i \in Executions |-> PyNone]
    /\ gemini_analysis = [i \in Executions |-> PyNone]
    /\ invoked = [i \in Executions |-> << >>]
    /\ sent = [i \in Executions |-> << >>]
    /\ raised = [i \in Executions |-> "None"]
    /\ response = [i \in Executions |-> << >>]
    /\ served = 0

(***************************************************************************)
(* except Exception, lines 235-238.                                        *)
(***************************************************************************)
\* str(e) of the two exceptions the handler body raises (lines 164, 167)
AttributeError == "'list' object has no attribute 'get'"
NameError == "name 'data' is not defined"

\* The handler without its except clause: the exception leaves the handler
\* and no response is built.
ExceptHandler_Propagates(i, e) ==
    /\ raised' = [raised EXCEPT ![i] = e]
    /\ pc' = [pc EXCEPT ![i] = "crashed"]
    /\ UNCHANGED response

ExceptHandler(i, e) ==
    /\ raised' = [raised EXCEPT ![i] = e]
    /\ response' = [response EXCEPT ![i] =
          Append(@, [status |-> 500,
                     body |-> [error |-> <<args[i].symbol, e>>]])]
    /\ pc' = [pc EXCEPT ![i] = "done"]

(***************************************************************************)
(* A request arrives at an idle execution (line 134).                      *)
(***************************************************************************)
Receive(i) ==
    /\ pc[i] = "idle"
    /\ served < MaxRequests
    /\ \E s \in Symbols, p \in Periods, v \in Intervals, t \in FinancialTexts :
          args' = [args EXCEPT ![i] = [symbol |-> s, period |-> p,
                                       interval |-> v, financial_text |-> t]]
    /\ pc' = [pc EXCEPT ![i] = "start"]
    /\ served' = served + 1
    /\ openai_analysis' = [openai_analysis EXCEPT ![i] = PyNone]
    /\ mistral_analysis' = [mistral_analysis EXCEPT ![i] = PyNone]
    /\ gemini_analysis' = [gemini_analysis EXCEPT ![i] = PyNone]
    /\ invoked' = [invoked EXCEPT ![i] = << >>]
    /\ sent' = [sent EXCEPT ![i] = << >>]
    /\ raised' = [raised EXCEPT ![i] = "None"]
    /\ response' = [response EXCEPT ![i] = << >>]
    /\ UNCHANGED <<config, store>>

(***************************************************************************)
(* Lines 138-155: the store check, the parameters, the three locals and    *)
(* the test of financial_text.                                             *)
(***************************************************************************)
\* The handler without the test of line 138.
CheckDb_NoStoreCheck(i) ==
    /\ pc[i] = "start"
    /\ pc' = [pc EXCEPT ![i] =
          IF Len(args[i].financial_text) > 0 THEN "openai" ELSE "data"]
    /\ UNCHANGED <<config, store, args, locals, invoked, sent, raised,
                   response, served>>

CheckDb(i) ==
    /\ pc[i] = "start"
    /\ IF db = "None"
       THEN /\ response' = [response EXCEPT ![i] =
                  Append(@, [status |-> 500,
                             body |-> [error |-> <<"Firestore client not initialized.">>]])]
            /\ pc' = [pc EXCEPT ![i] = "done"]
       ELSE /\ pc' = [pc EXCEPT ![i] =
                  IF Len(args[i].financial_text) > 0 THEN "openai" ELSE "data"]
            /\ UNCHANGED response
    /\ UNCHANGED <<config, store, args, locals, invoked, sent, raised, served>>

(***************************************************************************)
(* Line 157.                                                               *)
(***************************************************************************)
CallOpenAI(i) ==
    /\ pc[i] = "openai"
    /\ invoked' = [invoked EXCEPT ![i] = Append(@, "get_openai_analysis")]
    /\ IF openai_client = "None"
       THEN /\ openai_analysis' = [openai_analysis EXCEPT ![i] =
                  get_openai_analysis(PyNone)]
            /\ UNCHANGED sent
       ELSE /\ \E reply \in ChatReplies :
                  openai_analysis' = [openai_analysis EXCEPT ![i] =
                      get_openai_analysis(reply)]
            /\ sent' = [sent EXCEPT ![i] = Append(@, [call |-> "openai.chat"])]
    /\ pc' = [pc EXCEPT ![i] = "mistral"]
    /\ UNCHANGED <<config, store, args, mistral_analysis, gemini_analysis,
                   raised, response, served>>

(***************************************************************************)
(* Line 158.                                                               *)
(***************************************************************************)
CallMistral(i) ==
    /\ pc[i] = "mistral"
    /\ invoked' = [invoked EXCEPT ![i] = Append(@, "get_mistral_analysis")]
    /\ IF mistral_client = "None"
       THEN /\ mistral_analysis' = [mistral_analysis EXCEPT ![i] =
                  get_mistral_analysis(PyNone)]
            /\ UNCHANGED sent
       ELSE /\ \E reply \in ChatReplies :
                  mistral_analysis' = [mistral_analysis EXCEPT ![i] =
                      get_mistral_analysis(reply)]
            /\ sent' = [sent EXCEPT ![i] = Append(@, [call |-> "mistral.chat"])]
    /\ pc' = [pc EXCEPT ![i] = "gemini"]
    /\ UNCHANGED <<config, store, args, openai_analysis, gemini_analysis,
                   raised, response, served>>

(***************************************************************************)
(* Lines 159-165: the Genkit call and the choice of gemini_analysis.  A    *)
(* JSON body that is not a dict has no .get: AttributeError at line 164.   *)
(***************************************************************************)
CallGemini(i) ==
    /\ pc[i] = "gemini"
    /\ invoked' = [invoked EXCEPT ![i] = Append(@, "get_gemini_analysis_from_genkit")]
    /\ \E reply \in (IF GENKIT_FLOW_URL = "" THEN {PyNone} ELSE GenkitReplies) :
          LET gemini_analysis_response == get_gemini_analysis_from_genkit(reply)
          IN  IF GeminiUsable(gemini_analysis_response)
              THEN IF gemini_analysis_response.t = "dict"
                   THEN /\ gemini_analysis' = [gemini_analysis EXCEPT ![i] =
                              GetOutput(gemini_analysis_response)]
                        /\ pc' = [pc EXCEPT ![i] = "data"]
                        /\ UNCHANGED <<raised, response>>
                   ELSE /\ ExceptHandler(i, AttributeError)
                        /\ UNCHANGED gemini_analysis
              ELSE /\ pc' = [pc EXCEPT ![i] = "data"]
                   /\ UNCHANGED <<gemini_analysis, raised, response>>
    /\ sent' = [sent EXCEPT ![i] =
          IF GENKIT_FLOW_URL = "" THEN @ ELSE Append(@, [call |-> "genkit.post"])]
    /\ UNCHANGED <<config, store, args, openai_analysis, mistral_analysis, served>>

(***************************************************************************)
(* Line 167: `data` is bound neither in the function nor in the module,    *)
(* so the test raises NameError before either branch is chosen.            *)
(***************************************************************************)
EvalData(i) ==
    /\ pc[i] = "data"
    /\ ExceptHandler(i, NameError)
    /\ UNCHANGED <<config, store, args, locals, invoked, sent, served>>

(***************************************************************************)
(* The response has been returned; the execution is free for the next      *)
(* request.                                                                *)
(***************************************************************************)
Return(i) ==
    /\ pc[i] = "done"
    /\ pc' = [pc EXCEPT ![i] = "idle"]
    /\ args' = [args EXCEPT ![i] = NoRequest]
    /\ openai_analysis' = [openai_analysis EXCEPT ![i] = PyNone]
    /\ mistral_analysis' = [mistral_analysis EXCEPT ![i] = PyNone]
    /\ gemini_analysis' = [gemini_analysis EXCEPT ![i] = PyNone]
    /\ invoked' = [invoked EXCEPT ![i] = << >>]
    /\ sent' = [sent EXCEPT ![i] = << >>]
    /\ raised' = [raised EXCEPT ![i] = "None"]
    /\ response' = [response EXCEPT ![i] = << >>]
    /\ UNCHANGED <<config, store, served>>

Handler(i) ==
    \/ CheckDb(i)
    \/ CallOpenAI(i)
    \/ CallMistral(i)
    \/ CallGemini(i)
    \/ EvalData(i)

Next ==
    \E i \in Executions :
        \/ Receive(i)
        \/ Handler(i)
        \/ Return(i)

Spec == Init /\ [][Next]_vars

\* Every started handler step is eventually taken: the calls return and
\* the platform keeps running an execution that holds a request.
FairSpec == Spec /\ \A i \in Executions : WF_vars(Handler(i))

(***************************************************************************)
(* Vocabulary of the properties.                                           *)
(***************************************************************************)
Done(i) == pc[i] = "done"
StoreAvailable == db # "None"
HasText(i) == Len(args[i].financial_text) > 0
\* the provider holds a non-empty series for the requested symbol
HasSeries(i) == obtener_datos_accion(args[i].symbol, TRUE).t # "None"
Calls(i, c) == Cardinality({n \in 1..Len(sent[i]) : sent[i][n].call = c})
Invocations(i, f) == Cardinality({n \in 1..Len(invoked[i]) : invoked[i][n] = f})
Writes(i) == SelectSeq(sent[i], LAMBDA m : m.call = "firestore.set")
Status(i) == response[i][Len(response[i])].status
Body(i) == response[i][Len(response[i])].body
AnalysisKey(simbolo) == simbolo \o "_analysis"
Usable(i) ==
    AnyAnalysisUsable(openai_analysis[i], mistral_analysis[i], gemini_analysis[i])
\* the Genkit flow, if it answered, answered with a JSON object
FlowAnswerIsObject(i) == raised[i] # AttributeError

\* C1: a request that passes the store check, for a symbol the provider has
\* a non-empty series for, fetches the series once, writes one document at
\* key symbol (symbol, period, interval, shaped series, usable analyses) and
\* answers 200 with a message.
C1_DataPath ==
    \A i \in Executions :
        (Done(i) /\ StoreAvailable /\ HasSeries(i) /\ FlowAnswerIsObject(i)) =>
            /\ Calls(i, "yf.download") = 1
            /\ Writes(i) = <<[call |-> "firestore.set", key |-> args[i].symbol,
                   doc |-> HistoricalDocument(args[i],
                              ProviderSeries(args[i].symbol), openai_analysis[i],
                              mistral_analysis[i], gemini_analysis[i])]>>
            /\ Status(i) = 200
            /\ DOMAIN Body(i) = {"message"}

\* C2: a request for a symbol without provider data, with no text or no
\* usable analysis, answers 404 and writes nothing.
C2_FailurePath ==
    \A i \in Executions :
        (Done(i) /\ StoreAvailable /\ ~HasSeries(i) /\ (~HasText(i) \/ ~Usable(i)) /\ FlowAnswerIsObject(i)) =>
            /\ Status(i) = 404
            /\ Writes(i) = << >>
            /\ DOMAIN store = {}

\* C3: a request for a symbol without provider data, with text and at
\* least one usable analysis, writes the document at symbol + "_analysis"
\* and answers 200 with the three raw results in the body.
C3_AnalysisOnlyPath ==
    \A i \in Executions :
        (Done(i) /\ StoreAvailable /\ ~HasSeries(i) /\ HasText(i) /\ Usable(i) /\ FlowAnswerIsObject(i)) =>
            /\ Writes(i) = <<[call |-> "firestore.set",
                   key |-> AnalysisKey(args[i].symbol),
                   doc |-> AnalysisDocument(args[i], openai_analysis[i],
                              mistral_analysis[i], gemini_analysis[i])]>>
            /\ Status(i) = 200
            /\ DOMAIN Body(i) = {"message", "openai_analysis",
                                 "mistral_analysis", "gemini_analysis"}
            /\ Body(i).openai_analysis = openai_analysis[i]
            /\ Body(i).mistral_analysis = mistral_analysis[i]
            /\ Body(i).gemini_analysis = gemini_analysis[i]

\* C4: with db unavailable, every request answers 500 and makes no fetch,
\* no analysis call and no write.
C4_StoreUnavailable ==
    (db = "None") =>
        /\ DOMAIN store = {}
        /\ \A i \in Executions :
              /\ sent[i] = << >>
              /\ invoked[i] = << >>
              /\ Done(i) => (Len(response[i]) = 1 /\ Status(i) = 500)

C4_Witness ==
    /\ db = "None"
    /\ \E i \in Executions : Done(i) /\ HasText(i) /\ HasSeries(i) /\ Status(i) = 500

\* C5: with text, the three analysis clients are all invoked, and when one
\* provider failed and another returned a usable result, that result is in
\* the response and in the document the request wrote.
C5_AnalysisIsolation ==
    \A i \in Executions :
        (Done(i) /\ StoreAvailable /\ HasText(i) /\ FlowAnswerIsObject(i)) =>
            LET result == [openai_analysis |-> openai_analysis[i],
                           mistral_analysis |-> mistral_analysis[i],
                           gemini_analysis |-> gemini_analysis[i]]
                ok(p) == IF p = "gemini_analysis" THEN GeminiUsable(result[p])
                         ELSE ChatAnalysisUsable(result[p])
            IN  /\ invoked[i] = <<"get_openai_analysis", "get_mistral_analysis",
                                  "get_gemini_analysis_from_genkit">>
                /\ \A a, b \in DOMAIN result :
                      (a # b /\ ~ok(a) /\ ok(b)) =>
                          /\ b \in DOMAIN Body(i)
                          /\ Body(i)[b] = result[b]
                          /\ Len(Writes(i)) = 1
                          /\ b \in DOMAIN Writes(i)[1].doc
                          /\ Writes(i)[1].doc[b] = result[b]

\* C8: a request that passes the store check fetches exactly once, calls
\* each analysis client exactly once with text and never without, and
\* writes at most once.
C8_ExactlyOnce ==
    \A i \in Executions :
        (Done(i) /\ StoreAvailable) =>
            /\ Calls(i, "yf.download") = 1
            /\ \A f \in {"get_openai_analysis", "get_mistral_analysis",
                         "get_gemini_analysis_from_genkit"} :
                  Invocations(i, f) = IF HasText(i) THEN 1 ELSE 0
            /\ \A c \in {"openai.chat", "mistral.chat", "genkit.post"} :
                  Calls(i, c) <= 1
            /\ Calls(i, "firestore.set") <= 1

\* C10: every request ends with exactly one response, of status 200, 404
\* or 500; an exception in the handler body gives a 500 that carries its
\* message; a 200 comes only after the request's write.
C10_ResponseShape ==
    \A i \in Executions :
        /\ Len(response[i]) = IF Done(i) THEN 1 ELSE 0
        /\ Done(i) => Status(i) \in {200, 404, 500}
        /\ (raised[i] # "None") =>
              /\ Done(i)
              /\ Status(i) = 500
              /\ Body(i) = [error |-> <<args[i].symbol, raised[i]>>]
        /\ (Done(i) /\ Status(i) = 200) => Calls(i, "firestore.set") = 1

C10_AlwaysResponds ==
    /\ [] C10_ResponseShape
    /\ \A i \in Executions : (pc[i] = "start") ~> Done(i)

C10_Witness ==
    \E i \in Executions :
        /\ Done(i)
        /\ StoreAvailable
        /\ raised[i] # "None"
        /\ Status(i) = 500

====
